---- MODULE Spec2Model ----
(***************************************************************************)
(* Connection lifecycle orchestrator of the industrial IoT gateway:        *)
(* ProtocolManager (services/protocol_manager.py), the protocol services   *)
(* it drives (services/base_protocol.py, services/protocols/               *)
(* modbus_service.py) and the per-service monitoring task; and the         *)
(* WebSocket hub (services/websocket_manager.py, api/websocket.py) that    *)
(* fans events out to the subscribers of a channel.                        *)
(*                                                                         *)
(* Every coroutine is cut at its awaits: one action is the code that runs  *)
(* between two suspension points of the asyncio event loop.                *)
(***************************************************************************)
EXTENDS Integers, Sequences, FiniteSets, TLC

\* ------------------------------------------------------------------ bounds
NumIds == 2
MaxOpen == 2
NumSubs == 2
MaxEvents == 2
TickSeconds == 200

Ids == 1..NumIds

\* ------------------------------------------------------- program constants
\* models/protocol.py: class ProtocolType(str, Enum)
ProtocolType ==
  {"modbus-tcp", "opc-ua", "profinet", "ethernet-ip", "mqtt", "canopen", "bacnet"}

\* models/protocol.py: class ProtocolStatus(str, Enum)
ProtocolStatus == {"connected", "disconnected", "error"}

\* Protocol.type of the stored document of id: the first two instances are
\* Modbus devices and share one service, further ones are OPC-UA servers
DocType(i) == IF i <= 2 THEN "modbus-tcp" ELSE "opc-ua"

\* protocol_type arguments callers pass for id: the type of its document, or
\* a string that is no member of the enum
TypeInputs(i) == {DocType(i), "bogus"}

\* the tasks that call the orchestrator
Callers == {"c1", "c2"}

\* the WebSocket handles (one per client connection) and the tasks that
\* call broadcast: two producers and the hub's heartbeat task
Subs == 1..NumSubs
Broadcasters == {"b1", "b2", "hb"}

\* the two WebSocketManager classes: services/websocket_manager.py and
\* api/websocket.py
Impls == {"services", "api"}

\* keys of active_connections after __init__
InitialChannels(k) ==
  IF k = "services" THEN {"monitoring", "connections", "logs"}
  ELSE {"monitoring", "connections", "logs", "alerts", "data", "system"}

ChannelNames == InitialChannels("services") \cup InitialChannels("api")

\* channel arguments of connect and broadcast: a key both classes start
\* with, and one that only api/websocket.py starts with
ChannelInputs == {"monitoring", "alerts"}

\* cleanup_broken_connections: (current_time - last_heartbeat).total_seconds() > 300
StaleSeconds == 300

\* the kinds of event the producers hand to the hub
EventTags == {"MonitoringSample", "ConnectionStatus", "LogEntry", "Alert"}

\* the hub instance the subscription endpoints register with:
\* websocket_manager = WebSocketManager() of api/websocket.py, the one every
\* @router.websocket handler calls connect and disconnect on
EndpointHub == "api"

\* the hub instance a producer of tag broadcasts into.  base_protocol.py
\* imports websocket_manager from services.websocket_manager for samples,
\* log lines and status updates; alerts are broadcast by broadcast_alert of
\* api/websocket.py
ProducerHub(tag) == IF tag = "Alert" THEN "api" ELSE "services"

\* (variant: log lines go out on "monitoring")
BridgeMessagesLogsMisrouted(tag) ==
  CASE tag = "MonitoringSample" -> <<[type |-> "monitoring_data", ch |-> "monitoring"]>>
    [] tag = "ConnectionStatus" ->
         <<[type |-> "connection_status_update", ch |-> "connections"]>>
    [] tag = "LogEntry" -> <<[type |-> "log_entry", ch |-> "monitoring"]>>
    [] tag = "Alert" -> <<[type |-> "new_alert", ch |-> "alerts"],
                          [type |-> "system_notification", ch |-> "system"]>>

\* the messages one call of the producer's broadcast function hands to
\* broadcast, in order: the "type" of the message and the channel argument
BridgeMessages(tag) ==
  CASE tag = "MonitoringSample" -> <<[type |-> "monitoring_data", ch |-> "monitoring"]>>
    [] tag = "ConnectionStatus" ->
         <<[type |-> "connection_status_update", ch |-> "connections"]>>
    [] tag = "LogEntry" -> <<[type |-> "log_entry", ch |-> "logs"]>>
    [] tag = "Alert" -> <<[type |-> "new_alert", ch |-> "alerts"],
                          [type |-> "system_notification", ch |-> "system"]>>

VARIABLES
  running,   \* ProtocolManager.running_protocols: id -> protocol type | "none"
  db,        \* Protocol documents: id -> persisted status
  svc,       \* per protocol type, the service singleton's fields
  mon,       \* per protocol type, the service's monitoring task
  caller,    \* per calling task, the orchestrator coroutine it is in
  life,      \* per id: what the callers have been told about it so far
  impl,      \* which WebSocketManager class the hub is an instance of
  channel_keys,        \* the keys of WebSocketManager.active_connections
  active_connections,  \* channel -> set of handles
  connection_info,     \* handle -> bookkeeping entry
  ws,        \* per handle: client_state, and where its endpoint coroutine is
  bc,        \* per broadcasting task, the broadcast coroutine it is in
  events,    \* number of broadcast calls made so far
  last_sent, \* per handle: the latest broadcast call whose event was sent to it
  hub_tasks  \* the hub's background tasks: heartbeat_task, cleanup_task, and
             \* of api/websocket.py periodic_task and the flag _is_running

orchVars == <<running, db, svc, mon, caller, life>>
hubVars ==
  <<impl, channel_keys, active_connections, connection_info, ws, bc, events, last_sent,
    hub_tasks>>
vars ==
  <<running, db, svc, mon, caller, life,
    impl, channel_keys, active_connections, connection_info, ws, bc, events, last_sent,
    hub_tasks>>

\* ------------------------------------------------------------------ helpers
Perms(S) ==
  {s \in [1..Cardinality(S) -> S] : \A i, j \in 1..Cardinality(S) : s[i] = s[j] => i = j}

\* Python: True == 1, False == 0
PyInt(b) == IF b THEN 1 ELSE 0

RunningIds(run) == {i \in Ids : run[i] # "none"}

NoOutcome == [i \in Ids |-> "none"]

IdleCall ==
  [op |-> "none", pc |-> "done", id |-> 0, typ |-> "", todo |-> <<>>, cnt |-> 0,
   ret |-> FALSE, pre |-> "none", outc |-> NoOutcome, snap |-> {}, tres |-> "none",
   emits |-> {}]

NoTask == [st |-> "none", id |-> 0, seen |-> {}, n |-> 0, cancel |-> FALSE, emit |-> "none"]

NewService ==
  [active |-> {}, masters |-> {}, opened |-> [i \in Ids |-> 0], is_running |-> FALSE]

\* ProtocolManager.get_protocol_status(protocol_id)["status"]
get_protocol_status(run, id) == IF run[id] = "none" THEN "stopped" ELSE "running"

\* ProtocolType(protocol_type) succeeds
ProtocolTypeValid(t) == t \in ProtocolType

\* what the caller knows of id when it calls
PreState(run, lf, id) == IF run[id] # "none" THEN "running" ELSE lf[id]

\* no entry in connection_info
NoInfo == [in |-> FALSE, channel |-> "", age |-> 0]

NoHandle == [state |-> "new", pc |-> "none", ch |-> "", swept |-> FALSE, uni |-> "none"]

NoBroadcast ==
  [pc |-> "idle", ch |-> "", ev |-> 0, todo |-> <<>>, cur |-> 0, snap |-> {},
   closed0 |-> {}, sent |-> [s \in Subs |-> 0], okTo |-> {}, failedTo |-> {},
   disconnected |-> {}, hub |-> "", tag |-> "", type |-> "", more |-> <<>>,
   nkeys |-> 0]

\* WebSocketManager.__init__ of class k
HubInit(k) ==
  /\ impl = k
  /\ channel_keys = InitialChannels(k)
  /\ active_connections = [ch \in ChannelNames |-> {}]
  /\ connection_info = [s \in Subs |-> NoInfo]
  /\ ws = [s \in Subs |-> NoHandle]
  /\ bc = [b \in Broadcasters |-> NoBroadcast]
  /\ events = 0
  /\ last_sent = [s \in Subs |-> 0]
  /\ hub_tasks = [heartbeat |-> "running", cleanup |-> "running",
                  periodic |-> IF k = "api" THEN "running" ELSE "none",
                  is_running |-> k = "api"]

TypeOK ==
  /\ running \in [Ids -> ProtocolType \cup {"none"}]
  /\ db \in [Ids -> ProtocolStatus]
  /\ \A t \in ProtocolType :
       /\ svc[t].active \subseteq Ids
       /\ svc[t].masters \subseteq Ids
       /\ svc[t].is_running \in BOOLEAN
       /\ \A i \in Ids : svc[t].opened[i] \in 0..MaxOpen
       /\ mon[t].st \in {"none", "sleep", "store", "bcast", "done"}
  /\ life \in [Ids -> {"never", "active", "stopped"}]

Init ==
  /\ running = [i \in Ids |-> "none"]
  /\ db \in [Ids -> ProtocolStatus]
  /\ svc = [t \in ProtocolType |-> NewService]
  /\ mon = [t \in ProtocolType |-> NoTask]
  /\ caller = [c \in Callers |-> IdleCall]
  /\ life = [i \in Ids |-> "never"]
  /\ HubInit("services")

\* ------------------------------------------------- BaseProtocolService
\* (variant: a new task whatever the old one does)
StartMonitoringTaskAlways(m) == [NoTask EXCEPT !.st = "sleep"]

\* start_monitoring: a new task only when there is none or it has finished
StartMonitoringTask(m) ==
  IF m.st \in {"none", "done"} THEN [NoTask EXCEPT !.st = "sleep"] ELSE m

StartMonitoringFlag(s, m) ==
  IF m.st \in {"none", "done"} THEN [s EXCEPT !.is_running = TRUE] ELSE s

\* stop_monitoring up to its await: clear the flag, cancel a live task
StopMonitoringTask(m) ==
  IF m.st \in {"none", "done"} THEN m ELSE [m EXCEPT !.cancel = TRUE]

TaskAlive(m) == m.st \notin {"none", "done"}

\* _monitoring_loop resumes from its sleep (or runs for the first time):
\* the while test, then _generate_monitoring_data up to the first await
MonWake(t) ==
  /\ mon[t].st = "sleep"
  /\ ~mon[t].cancel
  /\ IF ~svc[t].is_running
       THEN mon' = [mon EXCEPT ![t] = [NoTask EXCEPT !.st = "done"]]
       ELSE IF svc[t].active = {}
         THEN mon' = [mon EXCEPT ![t] = [NoTask EXCEPT !.st = "sleep"]]
         ELSE \E i \in svc[t].active :
                mon' = [mon EXCEPT ![t] =
                          [st |-> "store", id |-> i, seen |-> {i},
                           n |-> Cardinality(svc[t].active), cancel |-> FALSE,
                           emit |-> "none"]]
  /\ UNCHANGED <<running, db, svc, caller, life>>
  /\ UNCHANGED hubVars

\* _store_monitoring_data returns: the sample is inserted, or the insert
\* failed and the failure was logged
MonStore(t) ==
  /\ mon[t].st = "store"
  /\ ~mon[t].cancel
  /\ \E ok \in BOOLEAN :
       mon' = [mon EXCEPT ![t].st = "bcast",
                          ![t].emit = IF ok THEN "stored" ELSE "none"]
  /\ UNCHANGED <<running, db, svc, caller, life>>
  /\ UNCHANGED hubVars

\* the dict iterator of _generate_monitoring_data: RuntimeError when the
\* dict changed size, else an entry not visited yet, else the end
IterNext(m, active) ==
  IF Cardinality(active) # m.n THEN {"error"}
  ELSE IF active \ m.seen = {} THEN {"end"}
  ELSE {"next"}

\* (variant: an iteration that failed ends the loop)
LoopGoesOnUnlessFailed(failed) == ~failed

\* _monitoring_loop, start_heartbeat_task, start_cleanup_task and
\* _heartbeat_loop: the try lies inside the while loop, and
\* 'except Exception' logs, sleeps and lets the loop go round again
LoopGoesOn(failed) == TRUE

\* _broadcast_monitoring_data returns; the for loop takes its next item, or
\* its iterator raises and the exception reaches the loop
MonBcast(t) ==
  /\ mon[t].st = "bcast"
  /\ ~mon[t].cancel
  /\ \E ok \in BOOLEAN :
       LET e == IF ok THEN "sent" ELSE "none"
           it == IterNext(mon[t], svc[t].active)
       IN
       IF "next" \in it
         THEN \E i \in svc[t].active \ mon[t].seen :
                mon' = [mon EXCEPT ![t].st = "store", ![t].id = i,
                                   ![t].seen = @ \cup {i}, ![t].emit = e]
         ELSE mon' = [mon EXCEPT ![t].st = IF LoopGoesOn("error" \in it)
                                             THEN "sleep" ELSE "done",
                                 ![t].emit = e]
  /\ UNCHANGED <<running, db, svc, caller, life>>
  /\ UNCHANGED hubVars

\* the cancelled task is scheduled: CancelledError at its await ends it
MonCancelled(t) ==
  /\ TaskAlive(mon[t])
  /\ mon[t].cancel
  /\ mon' = [mon EXCEPT ![t] = [NoTask EXCEPT !.st = "done"]]
  /\ UNCHANGED <<running, db, svc, caller, life>>
  /\ UNCHANGED hubVars


\* the services that hold the stored instances
ServiceTypes == {DocType(i) : i \in Ids}

\* start_monitoring called on service t from outside its start_protocol
\* (start_all_protocol_services does, for every service)
StartMonitoringCall(t) ==
  /\ svc' = [svc EXCEPT ![t] = StartMonitoringFlag(svc[t], mon[t])]
  /\ mon' = [mon EXCEPT ![t] = StartMonitoringTask(mon[t])]
  /\ UNCHANGED <<running, db, caller, life>>
  /\ UNCHANGED hubVars

\* stop_monitoring called on service t from outside its stop_protocol
\* (stop_all_protocol_services does), up to its await of the task
StopMonitoringCall(t) ==
  /\ svc' = [svc EXCEPT ![t].is_running = FALSE]
  /\ mon' = [mon EXCEPT ![t] = StopMonitoringTask(mon[t])]
  /\ UNCHANGED <<running, db, caller, life>>
  /\ UNCHANGED hubVars

\* ------------------------------------------------------ ModbusTcpService
\* start_protocol after the connection test succeeded: masters, the
\* connection info, start_monitoring
ServiceRegister(s, m, id) ==
  StartMonitoringFlag(
    [s EXCEPT !.masters = @ \cup {id}, !.active = @ \cup {id},
              !.opened[id] = @ + 1], m)

\* stop_protocol up to its first await.  closeOk: master.close() returned
StopSync(s, m, id, closeOk) ==
  IF id \in s.masters /\ ~closeOk
    THEN [s |-> s, m |-> m, pc |-> "p_fail"]
    ELSE
      LET s1 == [s EXCEPT !.masters = @ \ {id}, !.active = @ \ {id},
                          !.opened[id] = IF id \in s.masters THEN @ - 1 ELSE @]
      IN IF s1.active = {}
           THEN [s |-> [s1 EXCEPT !.is_running = FALSE],
                 m |-> StopMonitoringTask(m),
                 pc |-> IF TaskAlive(m) THEN "p_mon" ELSE "p_log"]
           ELSE [s |-> s1, m |-> m, pc |-> "p_log"]

\* connections this id holds open, over all services
OpenHandles(sv, id) ==
  sv["modbus-tcp"].opened[id] + sv["opc-ua"].opened[id] + sv["profinet"].opened[id]
  + sv["ethernet-ip"].opened[id] + sv["mqtt"].opened[id] + sv["canopen"].opened[id]
  + sv["bacnet"].opened[id]

\* ------------------------------------------------------- ProtocolManager
Set(c, rec, run, sv, mn, d, lf) ==
  /\ caller' = [caller EXCEPT ![c] = rec]
  /\ running' = run
  /\ svc' = sv
  /\ mon' = mn
  /\ db' = d
  /\ life' = lf
  /\ UNCHANGED hubVars

Done(rec, result) == [rec EXCEPT !.pc = "done", !.ret = result]

\* (variant: the except branch of start_protocol saves the ERROR status
\* without a try of its own)
HandledButErrorSave(site) == site # "start_errsave"

\* the try blocks of start_protocol, stop_protocol and
\* test_protocol_connection: every site of their bodies that can raise lies
\* inside a try whose except clause logs and returns False
Handled(site) == TRUE

\* an exception leaves start_protocol / stop_protocol: restart_protocol and
\* the bulk operations catch it in their own except clause and return False,
\* any other caller gets the exception
Raise(c, rec, run, sv, mn, d, lf) ==
  IF rec.op \in {"restart", "startAll", "stopAll"}
    THEN Set(c, Done(rec, FALSE), run, sv, mn, d, lf)
    ELSE Set(c, [rec EXCEPT !.pc = "raised"], run, sv, mn, d, lf)

\* start_protocol: self.running_protocols[protocol_id] = {...}
RecordRunning(run, id, typ) == [run EXCEPT ![id] = typ]

\* (variant: the record is left in the map)
RemoveRunningKept(run, id) == run

\* stop_protocol: del self.running_protocols[protocol_id]
RemoveRunning(run, id) == [run EXCEPT ![id] = "none"]

\* (variant: an invalid type is reported as a success)
InvalidTypeAccepted == TRUE

\* start_protocol: return False on an invalid protocol type
InvalidTypeResult == FALSE

\* (variant: stopping what is not running is reported as a failure)
StopNotRunningRejected == FALSE

\* stop_protocol: return True when the id is not running
StopNotRunningResult == TRUE

\* (variant: every attempt is counted)
StartedCountAll(n, success) == n + 1

\* start_all_protocols: if success: started_count += 1
StartedCount(n, success) == IF success THEN n + 1 ELSE n

\* stop_all_protocols: if success: stopped_count += 1
StoppedCount(n, success) == IF success THEN n + 1 ELSE n

\* start_all_protocols / stop_all_protocols: return True after the loop
BulkResult(n) == TRUE

\* (variant: everything that is not disconnected is started)
ShouldStartUnlessDisconnected(d) == {i \in Ids : d[i] # "disconnected"}

\* start_all_protocols: if protocol.status == ProtocolStatus.CONNECTED
ShouldStart(d) == {i \in Ids : d[i] = "connected"}

\* (variant: the loop gives up at the first failure)
LoopRestBreak(rest, success) == IF success THEN rest ELSE <<>>

\* the for loops of start_all_protocols and stop_all_protocols go on with the
\* rest of their items whatever the last one returned
LoopRest(rest, success) == rest

LifeAfterStop(lf, id, result) ==
  IF result /\ lf[id] = "active" THEN [lf EXCEPT ![id] = "stopped"] ELSE lf

\* the service calls _log_protocol_event, whose only broadcast is
\* websocket_manager.broadcast_log_entry.  (emits: the kinds of event the
\* call has handed to the hub so far)
LogProtocolEvent(rec) == [rec EXCEPT !.emits = @ \cup {"LogEntry"}]

\* start_protocol with a valid type, up to the await of service.start_protocol
\* (which begins by logging that it starts the connection)
EnterStart(rec, id, typ) ==
  [LogProtocolEvent(rec) EXCEPT !.pc = "s_conn", !.id = id, !.typ = typ]

\* start_protocol returns result to whoever called it
ReturnStart(c, rec, result, tag, run, sv, mn, d, lf) ==
  LET r1 == [rec EXCEPT !.outc[rec.id] = tag] IN
  IF rec.op = "startAll"
    THEN LET r2 == [r1 EXCEPT !.cnt = StartedCount(@, result),
                              !.todo = LoopRest(@, result)] IN
         IF r2.todo = <<>>
           THEN Set(c, Done(r2, BulkResult(r2.cnt)), run, sv, mn, d, lf)
           ELSE LET nid == Head(r2.todo) IN
                Set(c, EnterStart([r2 EXCEPT !.todo = Tail(@)], nid, DocType(nid)),
                    run, sv, mn, d, [lf EXCEPT ![nid] = "active"])
    ELSE Set(c, Done(r1, result), run, sv, mn, d, lf)

\* stop_protocol of a running id, up to its first await
EnterStop(c, rec, run, sv, mn, d, lf) ==
  LET id == rec.id
      t == run[id]
  IN \E closeOk \in (IF id \in sv[t].masters THEN BOOLEAN ELSE {TRUE}) :
       LET r == StopSync(sv[t], mn[t], id, closeOk) IN
       Set(c, [rec EXCEPT !.pc = r.pc, !.typ = t], run,
           [sv EXCEPT ![t] = r.s], [mn EXCEPT ![t] = r.m], d, lf)

\* stop_all_protocols: the loop from its next item on.  A listed id that is
\* no longer running returns True at once; the first running one is stopped
AdvanceStopAll(c, rec, run, sv, mn, d, lf) ==
  LET todo == rec.todo
      n == Len(todo)
      stops == {i \in 1..n : run[todo[i]] # "none"}
      k == IF stops = {} THEN n + 1 ELSE CHOOSE i \in stops : \A j \in stops : i <= j
      skipped == {todo[i] : i \in 1..(k - 1)}
      r1 == [rec EXCEPT !.cnt = @ + Cardinality(skipped),
                        !.outc = [i \in Ids |-> IF i \in skipped THEN "notrunning" ELSE @[i]]]
      lf1 == [i \in Ids |-> IF i \in skipped /\ lf[i] = "active" THEN "stopped" ELSE lf[i]]
  IN IF k > n
       THEN Set(c, Done([r1 EXCEPT !.todo = <<>>], BulkResult(r1.cnt)), run, sv, mn, d, lf1)
       ELSE EnterStop(c, [r1 EXCEPT !.id = todo[k], !.todo = SubSeq(todo, k + 1, n)],
                      run, sv, mn, d, lf1)

\* stop_protocol returns result to whoever called it
ReturnStop(c, rec, result, tag, run, sv, mn, d, lf) ==
  LET r1 == [rec EXCEPT !.outc[rec.id] = tag]
      lf1 == LifeAfterStop(lf, rec.id, result)
  IN CASE rec.op = "restart" -> Set(c, [r1 EXCEPT !.pc = "r_sleep"], run, sv, mn, d, lf1)
       [] rec.op = "stopAll" ->
            AdvanceStopAll(c, [r1 EXCEPT !.cnt = StoppedCount(@, result),
                                         !.todo = LoopRest(@, result)],
                           run, sv, mn, d, lf1)
       [] OTHER -> Set(c, Done(r1, result), run, sv, mn, d, lf1)

\* ----------------------------------------------------------- start_protocol
StartCall(c) ==
  /\ caller[c].pc = "done"
  /\ \E id \in Ids : \E typ \in TypeInputs(id) :
       LET rec == [IdleCall EXCEPT !.op = "start", !.id = id, !.typ = typ,
                                   !.pre = PreState(running, life, id)]
       IN IF ~ProtocolTypeValid(typ)
            THEN Set(c, Done([rec EXCEPT !.outc[id] = "badtype"], InvalidTypeResult),
                     running, svc, mon, db, life)
            ELSE Set(c, EnterStart(rec, id, typ), running, svc, mon, db,
                     [life EXCEPT ![id] = "active"])

\* service.start_protocol comes back: connected and registered ("ok", one
\* await of the event log still to go), returned False ("fail"), or raised
ServiceStartDone(c) ==
  /\ caller[c].pc = "s_conn"
  /\ LET rec == caller[c]
         id == rec.id
         t == rec.typ
     IN \E out \in {"ok", "fail", "raise"} :
          CASE out = "ok" ->
                 /\ svc[t].opened[id] < MaxOpen
                 /\ Set(c, [rec EXCEPT !.pc = "s_log"], running,
                        [svc EXCEPT ![t] = ServiceRegister(svc[t], mon[t], id)],
                        [mon EXCEPT ![t] = StartMonitoringTask(mon[t])], db, life)
            [] out = "fail" ->
                 ReturnStart(c, rec, FALSE, "fail",
                             running, svc, mon, db, life)
            [] out = "raise" ->
                 IF Handled("start_service")
                   THEN Set(c, [rec EXCEPT !.pc = "s_exc"],
                            running, svc, mon, db, life)
                   ELSE Raise(c, rec, running, svc, mon, db, life)

\* success: the record is inserted, then Protocol.get is awaited
StartRecord(c) ==
  /\ caller[c].pc = "s_log"
  /\ Set(c, [caller[c] EXCEPT !.pc = "s_db"],
         RecordRunning(running, caller[c].id, caller[c].typ), svc, mon, db, life)

\* Protocol.get / protocol.save: status CONNECTED, or the store raises
StartSave(c) ==
  /\ caller[c].pc = "s_db"
  /\ \E ok \in BOOLEAN :
       IF ok
         THEN ReturnStart(c, caller[c], TRUE, "ok", running, svc, mon,
                          [db EXCEPT ![caller[c].id] = "connected"], life)
         ELSE IF Handled("start_save")
           THEN Set(c, [caller[c] EXCEPT !.pc = "s_dberr"], running, svc, mon, db, life)
           ELSE Raise(c, caller[c], running, svc, mon, db, life)

\* the except branch: status ERROR if the store answers, return False
StartErrorSave(c) ==
  /\ caller[c].pc \in {"s_exc", "s_dberr"}
  /\ \E ok \in BOOLEAN :
       IF ok \/ Handled("start_errsave")
         THEN ReturnStart(c, caller[c], FALSE,
                          IF caller[c].pc = "s_dberr" THEN "dberr" ELSE "raise",
                          running, svc, mon,
                          IF ok THEN [db EXCEPT ![caller[c].id] = "error"] ELSE db, life)
         ELSE Raise(c, caller[c], running, svc, mon, db, life)

\* ------------------------------------------------------------ stop_protocol
StopCall(c) ==
  /\ caller[c].pc = "done"
  /\ \E id \in Ids :
       LET rec == [IdleCall EXCEPT !.op = "stop", !.id = id,
                                   !.pre = PreState(running, life, id)]
       IN IF running[id] = "none"
            THEN ReturnStop(c, rec, StopNotRunningResult, "notrunning",
                            running, svc, mon, db, life)
            ELSE EnterStop(c, rec, running, svc, mon, db, life)

\* stop_monitoring: await self.monitoring_task ends when the task has ended
StopAwaitMonitor(c) ==
  /\ caller[c].pc = "p_mon"
  /\ ~TaskAlive(mon[caller[c].typ])
  /\ Set(c, [caller[c] EXCEPT !.pc = "p_log"], running, svc, mon, db, life)

\* service.stop_protocol returned True: del running_protocols[id] (KeyError
\* when the key is gone), then Protocol.get is awaited
StopLogged(c) ==
  /\ caller[c].pc = "p_log"
  /\ IF running[caller[c].id] = "none"
       THEN IF Handled("stop_del")
              THEN ReturnStop(c, LogProtocolEvent(caller[c]), FALSE, "keyerror",
                              running, svc, mon, db, life)
              ELSE Raise(c, LogProtocolEvent(caller[c]), running, svc, mon, db, life)
       ELSE Set(c, [LogProtocolEvent(caller[c]) EXCEPT !.pc = "p_db"],
                RemoveRunning(running, caller[c].id), svc, mon, db, life)

\* Protocol.get / protocol.save: status DISCONNECTED, or the store raises
StopSave(c) ==
  /\ caller[c].pc = "p_db"
  /\ \E ok \in BOOLEAN :
       IF ok
         THEN ReturnStop(c, caller[c], TRUE, "ok", running, svc, mon,
                         [db EXCEPT ![caller[c].id] = "disconnected"], life)
         ELSE IF Handled("stop_save")
           THEN ReturnStop(c, caller[c], FALSE, "dberr", running, svc, mon, db, life)
           ELSE Raise(c, caller[c], running, svc, mon, db, life)

\* service.stop_protocol caught an exception, logged it and returned False
StopFailed(c) ==
  /\ caller[c].pc = "p_fail"
  /\ ReturnStop(c, LogProtocolEvent(caller[c]), FALSE, "fail", running, svc, mon, db, life)

\* --------------------------------------------------------- restart_protocol
RestartCall(c) ==
  /\ caller[c].pc = "done"
  /\ \E id \in Ids :
       LET rec == [IdleCall EXCEPT !.op = "restart", !.id = id,
                                   !.pre = PreState(running, life, id)]
       IN IF running[id] = "none"
            THEN Set(c, Done(rec, FALSE), running, svc, mon, db, life)
            ELSE EnterStop(c, rec, running, svc, mon, db, life)

\* asyncio.sleep(2) is over: start_protocol with the saved type
RestartWake(c) ==
  /\ caller[c].pc = "r_sleep"
  /\ Set(c, EnterStart(caller[c], caller[c].id, caller[c].typ), running, svc, mon, db,
         [life EXCEPT ![caller[c].id] = "active"])

\* ------------------------------------ start_all_protocols, stop_all_protocols
StartAllCall(c) ==
  /\ caller[c].pc = "done"
  /\ Set(c, [IdleCall EXCEPT !.op = "startAll", !.pc = "a_list"],
         running, svc, mon, db, life)

\* Protocol.find_all().to_list() answers (in the store's order) or raises
StartAllList(c) ==
  /\ caller[c].pc = "a_list"
  /\ \E ok \in BOOLEAN :
       IF ~ok
         THEN Set(c, Done(caller[c], FALSE), running, svc, mon, db, life)
         ELSE \E seq \in Perms(ShouldStart(db)) :
                LET rec == [caller[c] EXCEPT !.snap = ShouldStart(db)] IN
                IF seq = <<>>
                  THEN Set(c, Done(rec, BulkResult(0)), running, svc, mon, db, life)
                  ELSE Set(c, EnterStart([rec EXCEPT !.todo = Tail(seq)], seq[1], DocType(seq[1])),
                           running, svc, mon, db, [life EXCEPT ![seq[1]] = "active"])

StopAllCall(c) ==
  /\ caller[c].pc = "done"
  /\ \E seq \in Perms(RunningIds(running)) :
       AdvanceStopAll(c, [IdleCall EXCEPT !.op = "stopAll", !.todo = seq,
                                          !.snap = RunningIds(running)],
                      running, svc, mon, db, life)

\* -------------------------------------------------- test_protocol_connection
\* protocol_type arguments of test_protocol_connection
TestTypeInputs == {"modbus-tcp", "bogus"}

\* asyncio.wait_for(service.test_connection(...), timeout=30.0): seconds
TestTimeout == 30

\* how long service.test_connection takes in the cases told apart: it
\* answers well inside the timeout, or it is still running when the timeout
\* expires
TestDurations == {1, TestTimeout + 1}

\* (variant: the test goes through the service's stop path when it is over)
TestConnectionStopsMonitor(s) == [s EXCEPT !.is_running = FALSE]

\* ModbusTcpService.test_connection: a master of its own, one read, close;
\* no field of the service is read or written
TestConnectionService(s) == s

\* (variant: a timeout counts as a successful test)
TestResultTimeoutPasses(tres) == tres \in {"ok", "timeout"}

\* what test_protocol_connection returns: the service's answer, False on a
\* timeout and on an exception
TestResult(tres) == tres = "ok"

\* test_protocol_connection up to the await of asyncio.wait_for
TestCall(c) ==
  /\ caller[c].pc = "done"
  /\ \E typ \in TestTypeInputs :
       LET rec == [IdleCall EXCEPT !.op = "test", !.typ = typ] IN
       IF ~ProtocolTypeValid(typ)
         THEN Set(c, Done([rec EXCEPT !.tres = "badtype"], TestResult("badtype")),
                  running, svc, mon, db, life)
         ELSE Set(c, [rec EXCEPT !.pc = "t_wait"], running, svc, mon, db, life)

\* asyncio.wait_for comes back: with the service's answer, with the
\* exception the service raised, or with TimeoutError when the service took
\* longer than the timeout
TestDone(c) ==
  /\ caller[c].pc = "t_wait"
  /\ LET rec == caller[c]
         t == rec.typ
     IN \E dur \in TestDurations : \E ans \in {"ok", "fail", "raise"} :
          LET out == IF dur > TestTimeout THEN "timeout" ELSE ans
              sv == [svc EXCEPT ![t] = TestConnectionService(svc[t])]
          IN IF out \in {"ok", "fail"} \/ Handled("test_" \o out)
               THEN Set(c, Done([rec EXCEPT !.tres = out], TestResult(out)),
                        running, sv, mon, db, life)
               ELSE Raise(c, [rec EXCEPT !.tres = out], running, sv, mon, db, life)

\* ------------------------------------------------------- WebSocketManager
HubSetTasks(w, keys, reg, b, ev, ls, tk) ==
  /\ ws' = w
  /\ channel_keys' = keys
  /\ active_connections' = reg.ac
  /\ connection_info' = reg.ci
  /\ bc' = b
  /\ events' = ev
  /\ last_sent' = ls
  /\ hub_tasks' = tk
  /\ UNCHANGED impl
  /\ UNCHANGED orchVars

HubSet(w, keys, reg, b, ev, ls) == HubSetTasks(w, keys, reg, b, ev, ls, hub_tasks)

\* the registry: the channel sets and the bookkeeping map
Reg == [ac |-> active_connections, ci |-> connection_info]

InChannels(reg) == UNION {reg.ac[ch] : ch \in ChannelNames}

InInfo(reg) == {s \in Subs : reg.ci[s].in}

\* (variant: the bookkeeping entry is left behind)
disconnectKeepsInfo(reg, s) ==
  [ac |-> [ch \in ChannelNames |-> reg.ac[ch] \ {s}], ci |-> reg.ci]

\* services/websocket_manager.py disconnect: discard the handle from every
\* channel set, delete its connection_info entry if there is one
disconnect(reg, s) ==
  [ac |-> [ch \in ChannelNames |-> reg.ac[ch] \ {s}],
   ci |-> [reg.ci EXCEPT ![s] = NoInfo]]

\* api/websocket.py disconnect: delete the connection_info entry if there is
\* one, discard the handle from every channel set
ApiDisconnect(reg, s) ==
  [ac |-> [ch \in ChannelNames |-> reg.ac[ch] \ {s}],
   ci |-> [reg.ci EXCEPT ![s] = NoInfo]]

DisconnectOf(k, reg, s) ==
  IF k = "services" THEN disconnect(reg, s) ELSE ApiDisconnect(reg, s)

RECURSIVE DisconnectEach(_, _)
DisconnectEach(reg, S) ==
  IF S = {} THEN reg
  ELSE LET s == CHOOSE x \in S : TRUE IN DisconnectEach(disconnect(reg, s), S \ {s})

\* (variant: the connection_info entries of dropped connections stay)
DropFromSetOnly(reg, ch, S) == [ac |-> [reg.ac EXCEPT ![ch] = @ \ S], ci |-> reg.ci]

\* broadcast dropping connections it found broken: discard from the set of
\* its channel, delete the connection_info entries
DropFrom(reg, ch, S) ==
  [ac |-> [reg.ac EXCEPT ![ch] = @ \ S],
   ci |-> [s \in Subs |-> IF s \in S THEN NoInfo ELSE reg.ci[s]]]

\* (variant: every registered handle is a target)
BroadcastTargetsAll(reg, ch) == InChannels(reg)

\* broadcast: connections = self.active_connections[channel].copy()
BroadcastTargets(reg, ch) == reg.ac[ch]

\* (variant: the client_state test is left out)
CanSendAlways(w, s) == TRUE

\* broadcast: connection.client_state == WebSocketState.CONNECTED
CanSend(w, s) == w[s].state = "open"

\* (variant: the loop ends at the first failed send)
BroadcastRestBreak(rest, ok) == IF ok THEN rest ELSE <<>>

\* broadcast: the except clauses lie inside the for loop, which goes on with
\* the rest of the copy after a failed send
BroadcastRest(rest, ok) == rest

\* (variant: a channel that is no key yet is created)
BroadcastKeysCreated(keys, ch) == keys \cup {ch}

\* broadcast: 'if channel not in self.active_connections: return', and no
\* assignment to a key of active_connections anywhere in broadcast
BroadcastKeys(keys, ch) == keys

\* the for loop of broadcast from its next connection on, up to the next
\* await of send_text (sentTo: the handle the event is handed to) or to the
\* return.  A connection that is not CONNECTED is dropped at once
\* (services) or put on the disconnected list, which is dropped after the
\* loop (api)
BroadcastLoop(k, rec, reg, w) ==
  LET todo == rec.todo
      n == Len(todo)
      opens == {i \in 1..n : CanSend(w, todo[i])}
      nxt == IF opens = {} THEN n + 1 ELSE CHOOSE i \in opens : \A j \in opens : i <= j
      notOpen == {todo[i] : i \in 1..(nxt - 1)}
      r1 == [rec EXCEPT !.failedTo = @ \cup notOpen,
                        !.disconnected = IF k = "api" THEN @ \cup notOpen ELSE @]
      reg1 == IF k = "services" THEN DropFrom(reg, rec.ch, notOpen) ELSE reg
  IN IF nxt > n
       THEN [rec |-> [r1 EXCEPT !.pc = "done", !.todo = <<>>, !.cur = 0],
             reg |-> IF k = "api" THEN DropFrom(reg1, rec.ch, r1.disconnected) ELSE reg1,
             sentTo |-> 0]
       ELSE [rec |-> [r1 EXCEPT !.pc = "send", !.cur = todo[nxt],
                                !.todo = SubSeq(todo, nxt + 1, n),
                                !.sent[todo[nxt]] = @ + 1],
             reg |-> reg1,
             sentTo |-> todo[nxt]]

LastSent(ls, r) == IF r.sentTo = 0 THEN ls ELSE [ls EXCEPT ![r.sentTo] = r.rec.ev]

\* the registry of the instance websocket_manager of
\* services/websocket_manager.py when it is not the hub the endpoints use:
\* connect of that instance has no caller
ServicesHubReg ==
  [ac |-> [ch \in ChannelNames |-> {}], ci |-> [s \in Subs |-> NoInfo]]

\* the keys of active_connections of hub instance k
HubKeys(k) == IF k = impl THEN channel_keys ELSE InitialChannels(k)

\* after its loop over the channels, send_heartbeat of
\* services/websocket_manager.py sets last_heartbeat of every
\* connection_info entry to the current time; _heartbeat_loop of
\* api/websocket.py has no such statement
HeartbeatStamp(k, reg) ==
  IF k = "services"
    THEN [ac |-> reg.ac,
          ci |-> [s \in Subs |->
                    IF reg.ci[s].in THEN [reg.ci[s] EXCEPT !.age = 0] ELSE reg.ci[s]]]
    ELSE reg

\* _heartbeat_loop of api/websocket.py: 'if self.active_connections[channel]'
HeartbeatSkips(k, reg, ch) == k = "api" /\ reg.ac[ch] = {}

\* _periodic_updates_loop: the demo alert is broadcast only
\* 'if ... self.active_connections["alerts"]'
PeriodicSkipsAlert(reg, msg) == msg.type = "new_alert" /\ reg.ac["alerts"] = {}

\* the outcomes of what the caller of broadcast does once broadcast has come
\* back (r.rec.pc = "done"), up to the next await of send_text or to the end
\* of its function: broadcast is called for the next message, and a
\* broadcast that finds nobody to send to returns without suspending.  The
\* heartbeat iterates the dict of channels itself: its iterator raises
\* RuntimeError when the dict has changed size.  n: the broadcast calls
\* made so far
RECURSIVE AfterBroadcast(_, _, _)
AfterBroadcast(k, r, n) ==
  IF r.rec.pc # "done" THEN {r}
  ELSE IF r.rec.tag = "Heartbeat" /\ Cardinality(HubKeys(k)) # r.rec.nkeys
    THEN {[r EXCEPT !.rec.pc = "failed", !.rec.more = <<>>]}
  ELSE IF r.rec.more = <<>>
    THEN {IF r.rec.tag = "Heartbeat" THEN [r EXCEPT !.reg = HeartbeatStamp(k, @)] ELSE r}
  ELSE
    LET msg == Head(r.rec.more)
        rec == [NoBroadcast EXCEPT !.ch = msg.ch, !.ev = n + 1, !.hub = k,
                                   !.tag = r.rec.tag, !.type = msg.type,
                                   !.more = Tail(r.rec.more), !.nkeys = r.rec.nkeys]
        snap == BroadcastTargets(r.reg, msg.ch)
    IN IF r.rec.tag = "Heartbeat" /\ HeartbeatSkips(k, r.reg, msg.ch)
         THEN AfterBroadcast(k, [r EXCEPT !.rec.more = Tail(@)], n)
       ELSE IF r.rec.tag = "Periodic" /\ PeriodicSkipsAlert(r.reg, msg)
         THEN {[r EXCEPT !.rec.more = <<>>]}
       ELSE IF msg.ch \notin HubKeys(k)
         THEN AfterBroadcast(k, [rec |-> [rec EXCEPT !.pc = "done"], reg |-> r.reg,
                                 sentTo |-> r.sentTo], n + 1)
       ELSE UNION {AfterBroadcast(k,
                     BroadcastLoop(k, [rec EXCEPT !.todo = seq, !.snap = snap,
                                         !.closed0 = {s \in snap : ws[s].state # "open"}],
                                   r.reg, ws),
                     n + 1) : seq \in Perms(snap)}

\* a producer's broadcast function, called for an event of tag with the
\* messages msgs
EmitFrom(k, tag, msgs, reg, n) ==
  AfterBroadcast(k, [rec |-> [NoBroadcast EXCEPT !.pc = "done", !.hub = k, !.tag = tag,
                                                 !.more = msgs,
                                                 !.nkeys = Cardinality(HubKeys(k))],
                     reg |-> reg, sentTo |-> 0], n)

\* the number of broadcast calls made once outcome r is reached
EventsAfter(r) == IF r.rec.ev > events THEN r.rec.ev ELSE events

\* the background tasks once outcome r is reached: an exception that left
\* the heartbeat cycle is caught by the loop around it
TasksAfter(r) ==
  IF r.rec.pc = "failed" /\ ~LoopGoesOn(TRUE)
    THEN [hub_tasks EXCEPT !.heartbeat = "ended"]
    ELSE hub_tasks

\* the registry hub instance k works on, and the registry of the endpoints'
\* hub after k worked
HubReg(k) == IF k = impl THEN Reg ELSE ServicesHubReg

RegAfter(k, reg) == IF k = impl THEN reg ELSE Reg

\* a producer calls the broadcast function of its hub for an event of tag
EmitCall(b) ==
  /\ bc[b].pc \in {"idle", "done"}
  /\ \E tag \in EventTags :
       /\ events + Len(BridgeMessages(tag)) <= MaxEvents
       /\ LET k == ProducerHub(tag) IN
          \E r \in EmitFrom(k, tag, BridgeMessages(tag), HubReg(k), events) :
            HubSet(ws, channel_keys, RegAfter(k, r.reg), [bc EXCEPT ![b] = r.rec],
                   EventsAfter(r), LastSent(last_sent, r))

\* broadcast(message, channel) up to its first await of send_text
BcastCall(b) ==
  /\ bc[b].pc \in {"idle", "done"}
  /\ events < MaxEvents
  /\ \E ch \in ChannelInputs :
       LET ev == events + 1
           rec == [NoBroadcast EXCEPT !.ch = ch, !.ev = ev]
           keys == BroadcastKeys(channel_keys, ch)
       IN IF ch \notin channel_keys
            THEN HubSet(ws, keys, Reg, [bc EXCEPT ![b] = [rec EXCEPT !.pc = "done"]],
                        ev, last_sent)
            ELSE LET snap == BroadcastTargets(Reg, ch) IN
                 \E seq \in Perms(snap) :
                   LET r == BroadcastLoop(impl,
                              [rec EXCEPT !.todo = seq, !.snap = snap,
                                          !.closed0 = {s \in snap : ws[s].state # "open"}],
                              Reg, ws)
                   IN HubSet(ws, keys, r.reg, [bc EXCEPT ![b] = r.rec], ev,
                             LastSent(last_sent, r))

\* send_text comes back, or raises: the failed handle is disconnected
\* (services) or put on the disconnected list (api); the loop goes on, and
\* after it the producer's function with its next message
BcastSendDone(b) ==
  /\ bc[b].pc = "send"
  /\ \E ok \in BOOLEAN :
       LET rec == bc[b]
           s == rec.cur
           r0 == IF ok
                   THEN [rec EXCEPT !.okTo = @ \cup {s}]
                   ELSE [rec EXCEPT !.failedTo = @ \cup {s},
                                    !.disconnected = IF impl = "api" THEN @ \cup {s} ELSE @]
           reg0 == IF ok \/ impl = "api" THEN Reg ELSE disconnect(Reg, s)
           r1 == BroadcastLoop(impl, [r0 EXCEPT !.todo = BroadcastRest(@, ok)], reg0, ws)
       IN \E r \in AfterBroadcast(impl, r1, events) :
            HubSetTasks(ws, channel_keys, r.reg, [bc EXCEPT ![b] = r.rec],
                        EventsAfter(r), LastSent(last_sent, r), TasksAfter(r))

\* the keys of active_connections in the order the dict holds them: the
\* order of __init__, then the order of creation by connect
KeyOrder == <<"monitoring", "connections", "logs", "alerts", "data", "system">>

InKeys(ch) == ch \in channel_keys

HeartbeatMessages ==
  LET ks == SelectSeq(KeyOrder, InKeys)
  IN [i \in 1..Len(ks) |-> [type |-> "heartbeat", ch |-> ks[i]]]

\* the heartbeat task wakes from its sleep: one cycle of send_heartbeat
\* (services) or of the body of _heartbeat_loop (api), up to its first await
\* of send_text or to its end
HubHeartbeat ==
  /\ hub_tasks.heartbeat = "running"
  /\ bc["hb"].pc \in {"idle", "done", "failed"}
  /\ events < MaxEvents
  /\ \E r \in EmitFrom(impl, "Heartbeat", HeartbeatMessages, Reg, events) :
       HubSetTasks(ws, channel_keys, r.reg, [bc EXCEPT !["hb"] = r.rec], EventsAfter(r),
                   LastSent(last_sent, r), TasksAfter(r))

\* stop_background_tasks: both tasks are cancelled; a heartbeat cycle that is
\* suspended in a send gets CancelledError there, which no
\* 'except Exception' catches
HubStopTasks ==
  /\ hub_tasks.heartbeat = "running" \/ hub_tasks.cleanup = "running"
  /\ HubSetTasks(ws, channel_keys, Reg,
                 [bc EXCEPT !["hb"] =
                    IF @.pc = "send" THEN [@ EXCEPT !.pc = "cancelled", !.todo = <<>>,
                                                    !.more = <<>>]
                    ELSE @],
                 events, last_sent,
                 [hub_tasks EXCEPT
                    !.heartbeat = IF @ = "running" THEN "cancelled" ELSE @,
                    !.cleanup = IF @ = "running" THEN "cancelled" ELSE @])

\* the broadcasting task that is the periodic-update task of api/websocket.py
PeriodicTask == "b2"

\* what one cycle of _periodic_updates_loop broadcasts: the system status on
\* "monitoring", and, when the clock says so (demo), the demo alert through
\* broadcast_alert
PeriodicMessages(demo) ==
  <<[type |-> "system_status", ch |-> "monitoring"]>>
    \o (IF demo THEN BridgeMessages("Alert") ELSE <<>>)

\* the periodic-update task wakes from its sleep: one cycle of
\* _periodic_updates_loop up to its first await of send_text or to its end
HubPeriodic ==
  /\ impl = "api"
  /\ hub_tasks.periodic = "running"
  /\ bc[PeriodicTask].pc \in {"idle", "done"}
  /\ events < MaxEvents
  /\ \E demo \in BOOLEAN :
       \E r \in EmitFrom(impl, "Periodic", PeriodicMessages(demo), Reg, events) :
         HubSet(ws, channel_keys, r.reg, [bc EXCEPT ![PeriodicTask] = r.rec],
                EventsAfter(r), LastSent(last_sent, r))

\* 'if self.heartbeat_task is None or self.heartbeat_task.done()': a new
\* task only when there is none or it has finished
StartTask(st) == IF st \in {"none", "ended", "cancelled"} THEN "running" ELSE st

\* start_background_tasks of api/websocket.py: nothing when _is_running is
\* set; else the flag is set and each task is created unless the old one
\* has not finished
StartBackgroundTasks(tk) ==
  IF tk.is_running THEN tk
  ELSE [tk EXCEPT !.is_running = TRUE, !.heartbeat = StartTask(@),
                  !.periodic = StartTask(@)]

\* the broadcast coroutine of a background task: a task that has just been
\* created is in none
TaskBroadcast(rec, old, new) == IF new = "running" /\ old # "running" THEN NoBroadcast ELSE rec

ApiStartTasks ==
  /\ impl = "api"
  /\ LET tk == StartBackgroundTasks(hub_tasks) IN
     HubSetTasks(ws, channel_keys, Reg,
                 [bc EXCEPT !["hb"] = TaskBroadcast(@, hub_tasks.heartbeat, tk.heartbeat),
                            ![PeriodicTask] =
                              TaskBroadcast(@, hub_tasks.periodic, tk.periodic)],
                 events, last_sent, tk)

\* task.cancel() on a task that has not finished: the task ends the next
\* time it runs, with CancelledError at the await it is suspended in
CancelTask(st) == IF st = "running" THEN "cancelling" ELSE st

\* the broadcast coroutine of a task that is cancelled: a send it is
\* suspended in is its last
CancelBroadcast(rec, old) ==
  IF old = "running" /\ rec.pc = "send"
    THEN [rec EXCEPT !.pc = "cancelled", !.todo = <<>>, !.more = <<>>]
    ELSE rec

\* stop_background_tasks of api/websocket.py: the flag is cleared, both
\* tasks are cancelled, nothing is awaited
ApiStopTasks ==
  /\ impl = "api"
  /\ HubSetTasks(ws, channel_keys, Reg,
                 [bc EXCEPT !["hb"] = CancelBroadcast(@, hub_tasks.heartbeat),
                            ![PeriodicTask] = CancelBroadcast(@, hub_tasks.periodic)],
                 events, last_sent,
                 [hub_tasks EXCEPT !.is_running = FALSE, !.heartbeat = CancelTask(@),
                                   !.periodic = CancelTask(@)])

\* a cancelled task of api/websocket.py runs for the last time: 'except
\* asyncio.CancelledError: ... break', and the task has finished
ApiTaskEnds(k) ==
  /\ impl = "api"
  /\ hub_tasks[k] = "cancelling"
  /\ HubSetTasks(ws, channel_keys, Reg, bc, events, last_sent,
                 [hub_tasks EXCEPT ![k] = "cancelled"])

\* send_to_websocket of api/websocket.py after a send that came back: the
\* entry's last_heartbeat is set to the current time
SendStamp(k, reg, s) ==
  IF k = "api" /\ reg.ci[s].in THEN [reg EXCEPT !.ci[s].age = 0] ELSE reg

\* connect(websocket, channel): websocket.accept() comes back, the handle is
\* registered and the welcome message is handed to send_text; or accept
\* raises, and connect raises to the endpoint
HubAccept(s) ==
  /\ ws[s].pc = "none"
  /\ \E ch \in ChannelInputs : \E ok \in BOOLEAN :
       IF ok
         THEN HubSet([ws EXCEPT ![s].state = "open", ![s].pc = "welcome", ![s].ch = ch],
                     channel_keys \cup {ch},
                     [ac |-> [active_connections EXCEPT ![ch] = @ \cup {s}],
                      ci |-> [connection_info EXCEPT ![s] =
                                [in |-> TRUE, channel |-> ch, age |-> 0]]],
                     bc, events, last_sent)
         ELSE HubSet([ws EXCEPT ![s].state = "closed", ![s].pc = "raised", ![s].ch = ch],
                     channel_keys, Reg, bc, events, last_sent)

\* the send of the welcome message comes back, or raises and the handle is
\* disconnected.  api/websocket.py goes on with send_initial_alerts /
\* send_initial_monitoring, which send if the handle is still CONNECTED
HubWelcomeDone(s) ==
  /\ ws[s].pc = "welcome"
  /\ \E ok \in BOOLEAN :
       HubSet([ws EXCEPT ![s].pc =
                 IF impl = "api" /\ ws[s].state = "open" THEN "initial" ELSE "serving"],
              channel_keys,
              IF ok THEN SendStamp(impl, Reg, s) ELSE DisconnectOf(impl, Reg, s),
              bc, events, last_sent)

\* api/websocket.py: the send of the initial data comes back, or raises
HubInitialDone(s) ==
  /\ ws[s].pc = "initial"
  /\ \E ok \in BOOLEAN :
       HubSet([ws EXCEPT ![s].pc = "serving"], channel_keys,
              IF ok THEN SendStamp(impl, Reg, s) ELSE ApiDisconnect(Reg, s),
              bc, events, last_sent)

\* the unicast send for a handle that is not CONNECTED:
\* send_personal_message of services/websocket_manager.py disconnects it
\* and returns False, send_to_websocket of api/websocket.py sends nothing
\* and returns
UnicastClosed(k, reg, s) == IF k = "services" THEN disconnect(reg, s) ELSE reg

\* send_personal_message / send_to_websocket is called for the handle of an
\* endpoint that serves its client (a reply to a client message), up to the
\* await of send_text.  (uni: how the handle's last unicast send went)
HubSendToOne(s) ==
  /\ ws[s].pc = "serving"
  /\ ws[s].uni = "none"
  /\ IF ws[s].state = "open"
       THEN HubSet([ws EXCEPT ![s].uni = "sending"], channel_keys, Reg, bc, events, last_sent)
       ELSE HubSet([ws EXCEPT ![s].uni = "closed"], channel_keys,
                   UnicastClosed(impl, Reg, s), bc, events, last_sent)

\* the unicast send comes back, or raises and the handle is disconnected
HubSendToOneDone(s) ==
  /\ ws[s].uni = "sending"
  /\ \E ok \in BOOLEAN :
       HubSet([ws EXCEPT ![s].uni = IF ok THEN "sent" ELSE "failed"], channel_keys,
              IF ok THEN SendStamp(impl, Reg, s) ELSE DisconnectOf(impl, Reg, s),
              bc, events, last_sent)

\* the client goes away: client_state is no longer CONNECTED
HubClose(s) ==
  /\ ws[s].state = "open"
  /\ HubSet([ws EXCEPT ![s].state = "closed"], channel_keys, Reg, bc, events, last_sent)

\* the endpoint leaves its receive loop (WebSocketDisconnect, or an error
\* of the handler) and calls disconnect(websocket) on its way out
HubEndpointExit(s) ==
  /\ ws[s].pc = "serving"
  /\ ws[s].uni # "sending"
  /\ HubSet([ws EXCEPT ![s].pc = "gone"], channel_keys, DisconnectOf(impl, Reg, s),
            bc, events, last_sent)

\* time passes: every last_heartbeat is TickSeconds older (ages beyond the
\* staleness threshold are not told apart)
HubTick ==
  /\ \E s \in Subs : connection_info[s].in /\ connection_info[s].age <= StaleSeconds
  /\ HubSet(ws, channel_keys,
            [ac |-> active_connections,
             ci |-> [s \in Subs |->
                       IF connection_info[s].in /\ connection_info[s].age <= StaleSeconds
                         THEN [connection_info[s] EXCEPT !.age = @ + TickSeconds]
                         ELSE connection_info[s]]],
            bc, events, last_sent)

\* (variant: only the age of the last heartbeat is looked at)
BrokenStaleOnly(info, h) == info.age > StaleSeconds

\* cleanup_broken_connections: the heartbeat is older than 300 s, or
\* client_state is not CONNECTED
Broken(info, h) == info.age > StaleSeconds \/ h.state # "open"

\* cleanup_broken_connections, one cycle of _cleanup_loop: every entry of
\* connection_info that is broken is disconnected
cleanup_broken_connections(reg, w) ==
  DisconnectEach(reg, {s \in InInfo(reg) : Broken(reg.ci[s], w[s])})

\* (swept: the handles a cleanup cycle has disconnected)
HubCleanup ==
  /\ impl = "services"
  /\ hub_tasks.cleanup = "running"
  /\ LET reg == cleanup_broken_connections(Reg, ws) IN
       HubSet([s \in Subs |->
                 IF s \in InInfo(Reg) \ InInfo(reg) THEN [ws[s] EXCEPT !.swept = TRUE]
                 ELSE ws[s]],
              channel_keys, reg, bc, events, last_sent)

\* ---------------------------------------------------------- specifications
StartStep(c) ==
  \/ StartCall(c) \/ ServiceStartDone(c) \/ StartRecord(c) \/ StartSave(c)
  \/ StartErrorSave(c)

LifecycleStep(c) ==
  \/ StartStep(c)
  \/ StopCall(c) \/ StopAwaitMonitor(c) \/ StopLogged(c) \/ StopSave(c)
  \/ StopFailed(c)

TestStep(c) == TestCall(c) \/ TestDone(c)

CallerStep(c) ==
  \/ LifecycleStep(c)
  \/ RestartCall(c) \/ RestartWake(c)
  \/ StartAllCall(c) \/ StartAllList(c) \/ StopAllCall(c)
  \/ TestStep(c)

MonitorStep(t) == MonWake(t) \/ MonStore(t) \/ MonBcast(t) \/ MonCancelled(t)

\* one caller at a time, the monitoring tasks run beside it
Next ==
  \/ CallerStep("c1")
  \/ \E t \in ProtocolType : MonitorStep(t)

Spec == Init /\ [][Next]_vars

\* a task that starts instances, a second task that tests connections
\* meanwhile, and the monitoring tasks (which nothing cancels)
NextTest ==
  \/ StartStep("c1")
  \/ TestStep("c2")
  \/ \E t \in ProtocolType : MonWake(t) \/ MonStore(t) \/ MonBcast(t)

SpecTest == Init /\ [][NextTest]_vars

\* an orchestrator that has nothing to do
OrchIdle ==
  /\ running = [i \in Ids |-> "none"]
  /\ db = [i \in Ids |-> "disconnected"]
  /\ svc = [t \in ProtocolType |-> NewService]
  /\ mon = [t \in ProtocolType |-> NoTask]
  /\ caller = [c \in Callers |-> IdleCall]
  /\ life = [i \in Ids |-> "never"]

\* the hub of either class, freshly constructed
InitHub == OrchIdle /\ \E k \in Impls : HubInit(k)

EndpointStep(s) ==
  \/ HubAccept(s) \/ HubWelcomeDone(s) \/ HubClose(s) \/ HubEndpointExit(s)

BroadcastStep(b) == BcastCall(b) \/ BcastSendDone(b)

\* clients that connect, go away and are disconnected, and two tasks that
\* broadcast
NextHub ==
  \/ \E s \in Subs : EndpointStep(s) \/ HubInitialDone(s)
  \/ \E b \in Broadcasters : BroadcastStep(b)

SpecHub == InitHub /\ [][NextHub]_vars

\* the hub of services/websocket_manager.py with its cleanup task: clients,
\* one task that broadcasts, the clock and the cleanup cycles
InitCleanup == OrchIdle /\ HubInit("services")

NextCleanup ==
  \/ \E s \in Subs : EndpointStep(s)
  \/ BroadcastStep("b1")
  \/ HubTick
  \/ HubCleanup

SpecCleanup == InitCleanup /\ [][NextCleanup]_vars

\* the application as main.py wires it: clients subscribe through the
\* endpoints of api/websocket.py, a producer hands events of every tag to
\* the hub its code imports
InitBridge == OrchIdle /\ HubInit(EndpointHub)

NextBridge ==
  \/ \E s \in Subs : EndpointStep(s) \/ HubInitialDone(s)
  \/ EmitCall("b1") \/ BcastSendDone("b1")

SpecBridge == InitBridge /\ [][NextBridge]_vars

\* the hub of either class with its heartbeat task: clients, the clock and
\* the heartbeat cycles
NextHeartbeat ==
  \/ \E s \in Subs : EndpointStep(s) \/ HubInitialDone(s)
  \/ HubHeartbeat \/ BcastSendDone("hb")
  \/ HubTick

SpecHeartbeat == InitHub /\ [][NextHeartbeat]_vars

\* the hub of either class and its unicast path: clients whose endpoints
\* reply to them, while time passes
NextUnicast ==
  \/ \E s \in Subs : EndpointStep(s) \/ HubInitialDone(s)
  \/ \E s \in Subs : HubSendToOne(s) \/ HubSendToOneDone(s)
  \/ HubTick

SpecUnicast == InitHub /\ [][NextUnicast]_vars

\* the instances of type t after every instance has been started
StartedOf(t) == {i \in Ids : DocType(i) = t}

\* the background loops side by side: every instance is running and its
\* service's monitoring task sleeps; a task stops instances, clients connect
\* to the hub of services/websocket_manager.py, whose heartbeat task runs
\* its cycles until stop_background_tasks cancels it and the cleanup task
InitLoops ==
  /\ running = [i \in Ids |-> DocType(i)]
  /\ db = [i \in Ids |-> "connected"]
  /\ svc = [t \in ProtocolType |->
              IF StartedOf(t) = {} THEN NewService
              ELSE [active |-> StartedOf(t), masters |-> StartedOf(t),
                    opened |-> [i \in Ids |-> PyInt(i \in StartedOf(t))],
                    is_running |-> TRUE]]
  /\ mon = [t \in ProtocolType |->
              IF StartedOf(t) = {} THEN NoTask ELSE StartMonitoringTask(NoTask)]
  /\ caller = [c \in Callers |-> IdleCall]
  /\ life = [i \in Ids |-> "active"]
  /\ HubInit("services")

StopStep(c) ==
  \/ StopCall(c) \/ StopAwaitMonitor(c) \/ StopLogged(c) \/ StopSave(c) \/ StopFailed(c)

NextLoops ==
  \/ StopStep("c1")
  \/ \E t \in ProtocolType : MonitorStep(t)
  \/ \E s \in Subs : HubAccept(s)
  \/ HubHeartbeat \/ BcastSendDone("hb")
  \/ HubStopTasks

SpecLoops == InitLoops /\ [][NextLoops]_vars

\* two tasks that stop instances at the same time: every instance is
\* running, the monitoring tasks run beside the two callers
NextStops ==
  \/ \E c \in Callers : StopStep(c)
  \/ \E t \in ProtocolType : MonitorStep(t)

SpecStops == InitLoops /\ [][NextStops]_vars

\* the instances that are running when the two tasks below begin: all but
\* the last one
RunningAtFirst == {i \in Ids : i < NumIds}

\* the state after start_protocol has succeeded for the instances of
\* RunningAtFirst: records inserted, stored status CONNECTED, the services
\* hold their connections and their monitoring tasks sleep
InitConc ==
  /\ running = [i \in Ids |-> IF i \in RunningAtFirst THEN DocType(i) ELSE "none"]
  /\ db = [i \in Ids |-> IF i \in RunningAtFirst THEN "connected" ELSE "disconnected"]
  /\ svc = [t \in ProtocolType |->
              LET S == StartedOf(t) \cap RunningAtFirst IN
              IF S = {} THEN NewService
              ELSE [active |-> S, masters |-> S,
                    opened |-> [i \in Ids |-> PyInt(i \in S)],
                    is_running |-> TRUE]]
  /\ mon = [t \in ProtocolType |->
              IF StartedOf(t) \cap RunningAtFirst = {}
                THEN NoTask ELSE StartMonitoringTask(NoTask)]
  /\ caller = [c \in Callers |-> IdleCall]
  /\ life = [i \in Ids |-> IF i \in RunningAtFirst THEN "active" ELSE "never"]
  /\ HubInit("services")

\* a task that starts the instance that is not running yet (again and
\* again), a second task that stops instances meanwhile, and the monitoring
\* tasks
NextConc ==
  \/ StartCall("c1") /\ caller'["c1"].id \notin RunningAtFirst
  \/ ServiceStartDone("c1") \/ StartRecord("c1") \/ StartSave("c1")
  \/ StartErrorSave("c1")
  \/ StopStep("c2")
  \/ \E t \in ProtocolType : MonitorStep(t)

SpecConc == InitConc /\ [][NextConc]_vars

\* the same two tasks, and further tasks that call start_monitoring and
\* stop_monitoring on the services directly
NextMonitoring ==
  \/ NextConc
  \/ \E t \in ServiceTypes : StartMonitoringCall(t) \/ StopMonitoringCall(t)

SpecMonitoring == InitConc /\ [][NextMonitoring]_vars

\* one caller at a time and a store that answers every call: of the steps
\* that await the store, those in which it raises are left out
NextStoreUp ==
  \/ StartCall("c1") \/ ServiceStartDone("c1") \/ StartRecord("c1")
  \/ StartSave("c1") /\ caller'["c1"].pc # "s_dberr"
  \/ StartErrorSave("c1") /\ db'[caller["c1"].id] = "error"
  \/ StopCall("c1") \/ StopAwaitMonitor("c1") \/ StopLogged("c1") \/ StopFailed("c1")
  \/ StopSave("c1") /\ caller'["c1"].outc[caller["c1"].id] # "dberr"
  \/ RestartCall("c1") \/ RestartWake("c1")
  \/ StartAllCall("c1")
  \/ StartAllList("c1") /\ (caller'["c1"].pc = "done" => caller'["c1"].ret)
  \/ StopAllCall("c1")
  \/ \E t \in ProtocolType : MonitorStep(t)

SpecStoreUp == Init /\ [][NextStoreUp]_vars

\* the hub of api/websocket.py with its two background tasks: clients, the
\* cycles of the tasks, and callers of start_background_tasks and
\* stop_background_tasks
NextApiTasks ==
  \/ \E s \in Subs : HubAccept(s)
  \/ HubHeartbeat \/ BcastSendDone("hb")
  \/ HubPeriodic \/ BcastSendDone(PeriodicTask)
  \/ ApiStartTasks \/ ApiStopTasks
  \/ \E k \in {"heartbeat", "periodic"} : ApiTaskEnds(k)

SpecApiTasks == InitBridge /\ [][NextApiTasks]_vars

\* ------------------------------------------------------------------ claims
\* outcomes of start_protocol in which service.start_protocol succeeded /
\* did not succeed, and of stop_protocol in which service.stop_protocol
\* succeeded
ServiceStarted == {"ok", "dberr"}
ServiceStartFailed == {"fail", "raise"}
ServiceStopped == {"ok", "dberr"}

Returned(c, op) == caller[c].pc = "done" /\ caller[c].op = op

\* C1: when start(id) of an id that was not running has returned true, id is
\* in the running set and status(id) is running; when stop(id) has returned
\* true, id is not in the running set and status(id) is stopped.
C1_StartThenStop ==
  \A c \in Callers :
    LET r == caller[c] IN
    /\ (Returned(c, "start") /\ r.pre # "running" /\ r.ret)
         => /\ r.id \in RunningIds(running)
            /\ get_protocol_status(running, r.id) = "running"
    /\ (Returned(c, "stop") /\ r.ret)
         => /\ r.id \notin RunningIds(running)
            /\ get_protocol_status(running, r.id) = "stopped"

\* C1 witness: a stop of a running instance has returned true
C1_Witness ==
  \E c \in Callers :
    /\ Returned(c, "stop") /\ caller[c].pre = "running" /\ caller[c].ret
    /\ get_protocol_status(running, caller[c].id) = "stopped"

\* C2: when the service's start failed (returned False or raised), start
\* has returned false and the instance is reported in the Error state (by
\* status(id), or at least by its stored status).
C2_FailedStartIsError ==
  \A c \in Callers :
    LET r == caller[c] IN
    (Returned(c, "start") /\ r.outc[r.id] \in ServiceStartFailed)
      => /\ ~r.ret
         /\ \/ get_protocol_status(running, r.id) = "error"
            \/ db[r.id] = "error"

\* C3: a start of an id that is already running opens no further connection
\* for it (it is idempotent, or it is rejected without a state change).
C3_SecondStartOpensNothing ==
  [][\A c \in Callers :
       (caller[c].op = "start" /\ caller[c].pre = "running" /\ caller[c].pc # "done")
         => svc'[caller[c].typ].opened[caller[c].id]
              <= svc[caller[c].typ].opened[caller[c].id]]_vars

\* C4: stop(id) of an id that is not in the running set (never started,
\* already stopped, failed) returns true at once and changes nothing.
C4_StopOfStoppedSucceeds ==
  [][\A c \in Callers :
       (/\ caller[c].pc = "done"
        /\ caller'[c] # caller[c]
        /\ caller'[c].op = "stop"
        /\ running[caller'[c].id] = "none")
         => /\ caller'[c].pc = "done"
            /\ caller'[c].ret
            /\ running' = running
            /\ svc' = svc /\ mon' = mon /\ db' = db]_vars

\* C4 witness: a stop of an instance that had been started and stopped
\* before has returned true
C4_Witness ==
  \E c \in Callers :
    Returned(c, "stop") /\ caller[c].pre = "stopped" /\ caller[c].ret

\* C5: from every prior state restart(id) does what stop(id); start(id)
\* does: the service's start is attempted, and restart returns true exactly
\* when that start succeeds, which leaves id running.
C5_RestartIsStopThenStart ==
  \A c \in Callers :
    LET r == caller[c] IN
    Returned(c, "restart")
      => /\ r.outc[r.id] \in ServiceStarted \cup ServiceStartFailed
         /\ r.ret <=> r.outc[r.id] = "ok"
         /\ r.ret => r.id \in RunningIds(running)

\* C6: a start with a protocol type outside the enum returns false at once,
\* calls no service and changes neither the running set nor any record; an
\* instance that was stopped is still stopped.
C6_UnknownTypeRejected ==
  [][\A c \in Callers :
       (/\ caller[c].pc = "done"
        /\ caller'[c] # caller[c]
        /\ caller'[c].op = "start"
        /\ ~ProtocolTypeValid(caller'[c].typ))
         => /\ caller'[c].pc = "done"
            /\ ~caller'[c].ret
            /\ running' = running
            /\ svc' = svc /\ mon' = mon /\ db' = db
            /\ get_protocol_status(running, caller'[c].id) = "stopped"
                 => get_protocol_status(running', caller'[c].id) = "stopped"]_vars

\* C6 witness: a start with an unknown type has returned, the instance is
\* stopped
C6_Witness ==
  \E c \in Callers :
    /\ Returned(c, "start") /\ ~ProtocolTypeValid(caller[c].typ) /\ ~caller[c].ret
    /\ get_protocol_status(running, caller[c].id) = "stopped"

\* C7: when startAll has returned, a start was attempted for every
\* configured instance, every instance whose service start succeeded is
\* running, and every instance whose service start failed is in Error.
C7_StartAllIsolates ==
  \A c \in Callers :
    LET r == caller[c] IN
    Returned(c, "startAll")
      => \A i \in r.snap :
           /\ r.outc[i] # "none"
           /\ r.outc[i] \in ServiceStarted => i \in RunningIds(running)
           /\ r.outc[i] \in ServiceStartFailed
                => \/ get_protocol_status(running, i) = "error"
                   \/ db[i] = "error"

C9_StopAllIsolates ==
  \A c \in Callers :
    LET r == caller[c] IN
    Returned(c, "stopAll")
      => \A i \in r.snap :
           /\ r.outc[i] # "none"
           /\ r.outc[i] \in ServiceStopped => i \notin RunningIds(running)

\* C9 witness: stopAll has returned after one stop failed and another one
\* succeeded
C9_Witness ==
  \E c \in Callers : \E i, j \in caller[c].snap :
    /\ Returned(c, "stopAll")
    /\ caller[c].outc[i] = "fail" /\ caller[c].outc[j] = "ok"
    /\ j \notin RunningIds(running)

\* the monitoring task of service t persists / broadcasts a sample of the
\* instance it is at
Emits(t) ==
  \/ mon[t].st = "store" /\ mon'[t].st = "bcast" /\ mon'[t].emit = "stored"
  \/ mon[t].st = "bcast" /\ mon'[t].st \in {"store", "sleep"} /\ mon'[t].emit = "sent"

\* C10: once stop(id) has returned true (and no start of id was called
\* since) no sample of id is persisted or broadcast.
C10_NoSampleAfterStop ==
  [][\A t \in ProtocolType : Emits(t) => life[mon[t].id] # "stopped"]_vars

\* C11: start, stop, restart and testConnection never raise to their caller:
\* whatever the service or the persistent store does at any step, the call
\* ends by returning a boolean.
C11_NeverRaises ==
  \A c \in Callers :
    /\ caller[c].pc # "raised"
    /\ (caller[c].pc = "done" /\ caller[c].op \in {"start", "stop", "restart", "test"})
         => caller[c].ret \in BOOLEAN

\* C11 witness: a start has returned false after the service raised and the
\* store then refused the ERROR status as well
C11_Witness ==
  \E c \in Callers :
    /\ Returned(c, "start") /\ caller[c].outc[caller[c].id] = "raise"
    /\ ~caller[c].ret /\ db[caller[c].id] # "error"

\* C12: no step of testConnection, successful or not, changes the running
\* set, a connection record, a stored status, a service's connections or
\* its monitoring state, nor anything of a start that another task has in
\* flight: that start runs as it would without the test.
C12_TestChangesNothing ==
  [][\A c \in Callers :
       (caller'[c] # caller[c] /\ caller'[c].op = "test")
         => /\ running' = running /\ db' = db /\ life' = life
            /\ svc' = svc /\ mon' = mon
            /\ \A d \in Callers \ {c} : caller'[d] = caller[d]]_vars

\* C12 witness: a test is in flight while a start of a running service has
\* registered its connection and not yet written its record
C12_Witness ==
  /\ caller["c2"].op = "test" /\ caller["c2"].pc = "t_wait"
  /\ caller["c1"].op = "start" /\ caller["c1"].pc = "s_log"
  /\ svc[caller["c1"].typ].is_running

C14_FailedSendIsolated ==
  \A b \in Broadcasters :
    LET r == bc[b] IN
    (r.pc = "done" /\ r.failedTo # {})
      => /\ \A B \in r.snap \ r.failedTo : B \in r.okTo /\ r.sent[B] = 1
         /\ \A A \in r.failedTo :
              /\ r.sent[A] <= 1
              /\ A \notin InChannels(Reg) /\ A \notin InInfo(Reg)

\* C14 witness: a broadcast has completed in which the send to one
\* subscriber raised and the send to another one succeeded
C14_Witness ==
  \E b \in Broadcasters : \E A, B \in Subs :
    /\ bc[b].pc = "done"
    /\ A \in bc[b].failedTo /\ bc[b].sent[A] = 1
    /\ B \in bc[b].okTo /\ bc[b].sent[B] = 1

\* C15: the events of one channel are sent to each subscriber in the order
\* of the broadcast calls, also when the calls come from different tasks and
\* the earlier broadcast is suspended at a send.
C15_PerSubscriberFifo ==
  [][\A s \in Subs :
       last_sent'[s] # last_sent[s] => last_sent'[s] > last_sent[s]]_vars

\* C16: a broadcast sends its event at most once to a handle and only to
\* handles of its channel; when it has completed, every handle that was
\* registered on the channel and open from its start to its end was sent
\* the event exactly once.
C16_ExactlyOnce ==
  \A b \in Broadcasters : \A s \in Subs :
    LET r == bc[b] IN
    /\ r.sent[s] <= 1
    /\ r.sent[s] > 0 => ws[s].ch = r.ch
    /\ (/\ r.pc = "done" /\ s \in r.snap /\ ws[s].ch = r.ch
        /\ ws[s].state = "open" /\ s \in active_connections[r.ch])
         => r.sent[s] = 1

\* C16 witness: a broadcast has completed that sent its event once to each
\* of two subscribers of its channel, both still registered and open
C16_Witness ==
  \E b \in Broadcasters :
    /\ bc[b].pc = "done" /\ Cardinality(bc[b].snap) = 2
    /\ \A s \in bc[b].snap :
         /\ bc[b].sent[s] = 1 /\ ws[s].state = "open"
         /\ s \in active_connections[bc[b].ch]

\* handles of the broadcasts at hand that were closed when the broadcast
\* started
ClosedAtStart(b) == bc[b].closed0

\* C17: a subscriber whose handle was closed when a broadcast started is
\* not sent the event and not counted as a success; it is out of the channel
\* sets and the bookkeeping map when the broadcast has completed, and in any
\* case when the next cleanup cycle has completed.
C17_ClosedNotSent ==
  [][/\ \A b \in Broadcasters : \A s \in bc'[b].closed0 :
          /\ bc'[b].sent[s] = 0 /\ s \notin bc'[b].okTo
          /\ bc'[b].pc = "done"
               => s \notin InChannels(Reg') /\ s \notin InInfo(Reg')
     /\ HubCleanup
          => \A b \in Broadcasters : \A s \in bc[b].closed0 :
               s \notin InChannels(Reg') /\ s \notin InInfo(Reg')]_vars

\* C17 witness: a broadcast is suspended at a send, and a handle of its copy
\* that was closed when it started has been removed by a cleanup cycle
\* before the broadcast got to it
C17_Witness ==
  \E b \in Broadcasters : \E s \in ClosedAtStart(b) :
    /\ bc[b].pc = "send" /\ ws[s].swept
    /\ bc[b].sent[s] = 0 /\ s \notin InInfo(Reg)

\* C18: when a cleanup cycle has completed, no handle whose last heartbeat
\* is older than the staleness threshold and no handle that is not open is
\* left in a channel set or in the bookkeeping map.
C18_CleanupRemovesBroken ==
  [][HubCleanup
       => \A s \in InChannels(Reg') \cup InInfo(Reg') :
            /\ ws'[s].state = "open"
            /\ connection_info'[s].in
            /\ connection_info'[s].age <= StaleSeconds]_vars

\* C18 witness: cleanup cycles have removed a handle that was open (its
\* heartbeat was stale) and a handle that is closed
C18_Witness ==
  \E s, t \in Subs :
    /\ ws[s].swept /\ ws[s].state = "open" /\ s \notin InChannels(Reg)
    /\ ws[t].swept /\ ws[t].state = "closed" /\ t \notin InInfo(Reg)

\* C19: disconnect of a handle leaves it in no channel set and not in the
\* bookkeeping map and leaves every other handle alone; a second disconnect,
\* and the disconnect of a handle that is not registered, change nothing.
C19_DisconnectIdempotent ==
  \A s \in Subs :
    LET r1 == DisconnectOf(impl, Reg, s) IN
    /\ s \notin InChannels(r1) /\ s \notin InInfo(r1)
    /\ \A ch \in ChannelNames : r1.ac[ch] \ {s} = active_connections[ch] \ {s}
    /\ \A t \in Subs \ {s} : r1.ci[t] = connection_info[t]
    /\ DisconnectOf(impl, r1, s) = r1
    /\ (s \notin InChannels(Reg) /\ s \notin InInfo(Reg)) => r1 = Reg

\* C19 witness: a handle has been disconnected from the error path of a
\* broadcast whose send to it failed, and by its endpoint as well, while
\* another handle is registered
C19_Witness ==
  \E s, t \in Subs : \E b \in Broadcasters :
    /\ impl = "services"
    /\ ws[s].pc = "gone" /\ s \in bc[b].failedTo /\ bc[b].sent[s] = 1
    /\ s \notin InInfo(Reg)
    /\ t \in InInfo(Reg) /\ t \in InChannels(Reg)

\* C20: a broadcast to a channel that has no subscriber, or to a name that
\* is no channel, returns at once, sends nothing and leaves the channel
\* sets, the bookkeeping map and the set of channels as they were.
C20_EmptyBroadcastNoEffect ==
  [][\A b \in Broadcasters :
       (/\ bc[b].pc \in {"idle", "done"}
        /\ bc'[b] # bc[b]
        /\ \/ bc'[b].ch \notin channel_keys
           \/ active_connections[bc'[b].ch] = {})
         => /\ bc'[b].pc = "done"
            /\ \A s \in Subs : bc'[b].sent[s] = 0
            /\ last_sent' = last_sent
            /\ Reg' = Reg
            /\ channel_keys' = channel_keys]_vars

\* C20 witness: a broadcast to a name that is no channel has returned, and
\* so has a broadcast to a channel without subscribers; the name is still no
\* channel
C20_Witness ==
  \E b, d \in Broadcasters :
    /\ bc[b].pc = "done" /\ bc[b].ch \notin channel_keys
    /\ bc[d].pc = "done" /\ bc[d].ch \in channel_keys /\ bc[d].snap = {}
    /\ bc[d].ev # 0 /\ bc[b].ev # 0

\* C21: an event a producer hands to its hub reaches the subscribers of the
\* endpoints: when a monitoring sample (a log line) is broadcast, every
\* handle the endpoints have registered on "monitoring" ("logs") is among
\* the connections the broadcast goes through.
\* Violated: the producers' hub is not the hub the endpoints register with.
C21_SampleReachesSubscribers ==
  [][\A b \in Broadcasters :
       (/\ bc'[b] # bc[b]
        /\ bc[b].pc \in {"idle", "done"}
        /\ bc'[b].tag \in {"MonitoringSample", "LogEntry"})
       => active_connections[bc'[b].ch] \subseteq bc'[b].snap]_vars

\* C22: a lifecycle state change made by the orchestrator is announced on
\* "connections": when start or stop has returned after starting the
\* instance, stopping it, or setting its stored status to error, the call
\* has handed a ConnectionStatus event to the hub.
\* Violated: the only events these calls hand to the hub are log lines.
C22_StateChangeBroadcast ==
  \A c \in Callers :
    (/\ caller[c].pc = "done"
     /\ caller[c].op \in {"start", "stop"}
     /\ caller[c].outc[caller[c].id] \in {"ok", "raise", "dberr"})
    => "ConnectionStatus" \in caller[c].emits

\* the channels whose set holds handle s
ChannelsOf(s) == {ch \in ChannelNames : s \in active_connections[ch]}

\* C23: the registry is consistent: a handle has a connection_info entry
\* exactly when it is in some channel set, and then it is in the set of
\* exactly one channel, the one its entry records.
C23_RegistryConsistent ==
  \A s \in Subs :
    /\ connection_info[s].in <=> ChannelsOf(s) # {}
    /\ connection_info[s].in => ChannelsOf(s) = {connection_info[s].channel}

\* one handle is registered on "alerts" after a broadcast has dropped another
C23_Witness ==
  \E s, t \in Subs :
    /\ s # t
    /\ connection_info[s].in
    /\ ChannelsOf(s) = {"alerts"}
    /\ ~connection_info[t].in
    /\ \E b \in Broadcasters : t \in bc[b].failedTo

\* the lifecycle state a stored status stands for: ProtocolStatus has no
\* member for an instance that is being started or stopped
RecordState(d, id) ==
  CASE d[id] = "connected" -> "Running"
    [] d[id] = "disconnected" -> "Stopped"
    [] d[id] = "error" -> "Error"

LifecycleEdges ==
  {<<"Stopped", "Starting">>, <<"Starting", "Running">>, <<"Starting", "Error">>,
   <<"Running", "Stopped">>, <<"Running", "Error">>, <<"Error", "Starting">>}

\* C24: the state of a record changes only along Stopped -> Starting,
\* Starting -> Running, Starting -> Error, Running -> Stopped,
\* Running -> Error and Error -> Starting.
\* Violated: a successful start takes the stored status from disconnected
\* (or error) to connected in one step.
C24_LifecycleTransitions ==
  [][\A id \in Ids :
       RecordState(db', id) # RecordState(db, id)
       => <<RecordState(db, id), RecordState(db', id)>> \in LifecycleEdges]_vars

\* C25: when a heartbeat cycle ends, every subscriber still registered has
\* its last-heartbeat time set to the time of that cycle.
\* Violated: the heartbeat of api/websocket.py sets no timestamp.
C25_HeartbeatStamps ==
  [][(bc["hb"].pc # "done" /\ bc'["hb"].pc = "done")
     => \A s \in Subs : connection_info'[s].in => connection_info'[s].age = 0]_vars

\* C26: a background loop ends only when it is cancelled or stopped, never
\* because one of its iterations failed: a monitoring task ends only when
\* it has been cancelled or its service's is_running flag is cleared, and
\* the heartbeat and cleanup tasks stop running only by being cancelled.
C26_LoopsSurviveFailures ==
  [][/\ \A t \in ProtocolType :
          (TaskAlive(mon[t]) /\ ~TaskAlive(mon'[t]))
          => (mon[t].cancel \/ ~svc[t].is_running)
     /\ \A k \in {"heartbeat", "cleanup"} :
          (hub_tasks[k] = "running" /\ hub_tasks'[k] # "running")
          => hub_tasks'[k] = "cancelled"]_vars

\* an iteration of a monitoring loop has failed before it reached every
\* active connection, a heartbeat cycle has failed, and both tasks are
\* still there
C26_Witness ==
  /\ \E t \in ProtocolType :
       mon[t].st = "sleep" /\ mon[t].seen # {} /\ ~(svc[t].active \subseteq mon[t].seen)
  /\ bc["hb"].pc = "failed"
  /\ hub_tasks.heartbeat = "running"

\* C27: stopping one instance does not keep the others from being sampled:
\* when an iteration of a monitoring loop is over, every instance its
\* service still holds has had its sample produced in that iteration.
\* Violated: the stop of an instance during an iteration makes the
\* iteration end before the remaining instances are reached.
C27_OthersKeepSampling ==
  [][\A t \in ProtocolType :
       (mon[t].st = "bcast" /\ mon'[t].st = "sleep")
       => svc[t].active \subseteq mon[t].seen]_vars

\* the channel each kind of event is to go out on
ImpliedChannel(tag) ==
  CASE tag = "MonitoringSample" -> "monitoring"
    [] tag = "ConnectionStatus" -> "connections"
    [] tag = "LogEntry" -> "logs"
    [] tag = "Alert" -> "alerts"

\* task b begins a broadcast in this step
BroadcastBegins(b) == bc'[b].ev # bc[b].ev /\ bc'[b].tag \in EventTags

\* C28 (as stated): every broadcast made for an event goes out on the
\* channel implied by the event's tag, and on no other channel.
\* Violated: an alert is also announced on "system".
C28_TagImpliesChannel ==
  [][\A b \in Broadcasters :
       BroadcastBegins(b) => bc'[b].ch = ImpliedChannel(bc'[b].tag)]_vars

\* C28 (amended): samples, status updates and log lines go out on the
\* channel implied by their tag only; an alert goes out as new_alert on
\* "alerts" only, and is announced by a system_notification on "system".
C28_TagImpliesChannelOrSystem ==
  [][\A b \in Broadcasters :
       BroadcastBegins(b)
       => \/ bc'[b].ch = ImpliedChannel(bc'[b].tag) /\ bc'[b].type # "system_notification"
          \/ /\ bc'[b].tag = "Alert"
             /\ bc'[b].type = "system_notification"
             /\ bc'[b].ch = "system"]_vars

\* an alert has been sent to a subscriber of "alerts" and then announced on
\* "system"
C28_Witness ==
  \E b \in Broadcasters : \E s \in Subs :
    /\ bc[b].tag = "Alert"
    /\ bc[b].type = "system_notification"
    /\ bc[b].ch = "system"
    /\ bc[b].pc = "done"
    /\ last_sent[s] = bc[b].ev - 1
    /\ ws[s].ch = "alerts"

\* C29: a unicast send to a handle that is not open, or a unicast send that
\* fails, removes the handle from its channel set and from the bookkeeping
\* map.
\* Violated: send_to_websocket of api/websocket.py leaves a handle that is
\* not open where it is.
C29_UnicastFailureRemoves ==
  [][\A s \in Subs :
       (ws'[s].uni # ws[s].uni /\ ws'[s].uni \in {"closed", "failed"})
       => (~connection_info'[s].in /\ \A ch \in ChannelNames : s \notin active_connections'[ch])]_vars

\* C30: in an iteration of a monitoring loop the sample of a connection is
\* broadcast only after its insert has come back, and the iteration ends
\* only when every active connection has had its sample, whether or not an
\* insert or a broadcast failed on the way.
\* Violated: an iteration also ends when the dict of active connections
\* has changed size, before the remaining connections are reached.
C30_PersistThenEmitForAll ==
  [][\A t \in ProtocolType :
       /\ (mon'[t].st = "bcast" /\ mon[t].st # "bcast")
          => (mon[t].st = "store" /\ mon'[t].id = mon[t].id)
       /\ (mon[t].st = "bcast" /\ mon'[t].st = "sleep")
          => svc[t].active \subseteq mon[t].seen]_vars

\* C31: start_all_protocols invokes start for exactly the stored protocols
\* whose persisted status is connected when it lists them: what it sets out
\* to start is that set, every start it invokes is of a protocol of that set
\* not started by it before, and when it returns every protocol of the set
\* has been started; no protocol stored as disconnected or error is started.
C31_StartAllStartsConnected ==
  [][\A c \in Callers :
       LET r == caller[c]
           r2 == caller'[c]
           invoked == r2.pc = "s_conn" /\ (r.pc # "s_conn" \/ r.id # r2.id)
       IN
       r2.op = "startAll"
         => /\ (r.pc = "a_list" /\ (r2.pc = "s_conn" \/ (r2.pc = "done" /\ r2.ret)))
                 => r2.snap = {i \in Ids : db[i] = "connected"}
            /\ invoked
                 => /\ r2.id \in r2.snap
                    /\ db[r2.id] = "connected"
                    /\ r.outc[r2.id] = "none"
            /\ (r.pc \notin {"a_list", "done"} /\ r2.pc = "done")
                 => \A i \in Ids :
                      r2.outc[i] # "none" <=> i \in r2.snap]_vars

\* C31 witness: start_all_protocols has returned after it started one
\* protocol and left alone another one, which is stored as disconnected
C31_Witness ==
  \E c \in Callers : \E i, j \in Ids :
    /\ Returned(c, "startAll") /\ caller[c].ret
    /\ caller[c].outc[i] # "none"
    /\ db[j] = "disconnected" /\ caller[c].outc[j] = "none"

\* C32: when start(id, ...) has returned, it has returned true if and only
\* if id is in the running set with status running; in particular a store
\* failure after the service started and the record was inserted does not
\* leave id running while start reports false.
C32_StartTrueIffRunning ==
  \A c \in Callers :
    LET r == caller[c] IN
    Returned(c, "start")
      => (r.ret <=> /\ r.id \in RunningIds(running)
                    /\ get_protocol_status(running, r.id) = "running")

\* C33: when stop(id) has returned false, id is still in the running set; a
\* store failure after the service stopped and the record was removed does
\* not make stop report a failure for an instance that is stopped.
C33_StopFalseOnlyIfRunning ==
  \A c \in Callers :
    LET r == caller[c] IN
    (Returned(c, "stop") /\ ~r.ret) => r.id \in RunningIds(running)

\* C34: two stop(id) calls issued for a running id while the other one is
\* still in progress (neither meets a failure of the service or of the
\* store) both return true and leave id out of the running set; the second
\* one does not fail because the first one removed the record.
C34_ConcurrentStopsSucceed ==
  \A c, c2 \in Callers :
    LET r == caller[c]
        r2 == caller[c2]
    IN
    (/\ c # c2
     /\ Returned(c, "stop") /\ Returned(c2, "stop")
     /\ r.id = r2.id
     /\ r.pre = "running" /\ r2.pre = "running"
     /\ r.outc[r.id] \notin {"fail", "dberr"}
     /\ r2.outc[r.id] \notin {"fail", "dberr"})
      => /\ r.ret /\ r2.ret
         /\ r.id \notin RunningIds(running)

\* C35: whenever a protocol service has an active connection and no start
\* or stop call is in progress, its monitoring loop is alive: is_running is
\* true and its task has not finished.
C35_MonitoringAliveWhileActive ==
  \A t \in ProtocolType :
    (svc[t].active # {} /\ \A c \in Callers : caller[c].pc = "done")
      => svc[t].is_running /\ TaskAlive(mon[t])

C37_StoredStatusMatchesRunning ==
  (\A c \in Callers : caller[c].pc = "done")
    => \A i \in Ids :
         life[i] # "never" => (db[i] = "connected" <=> i \in RunningIds(running))

\* C38: once disconnect(s) has returned (the endpoint of s called it on its
\* way out), no broadcast begins a send to s, not even one that copied the
\* channel's subscribers before the disconnect and was suspended in its
\* loop meanwhile.
C38_NoSendAfterDisconnect ==
  [][\A b \in Broadcasters : \A s \in Subs :
       bc'[b].sent[s] > bc[b].sent[s] => ws[s].pc # "gone"]_vars

\* C39: for the hub of api/websocket.py, whenever start_background_tasks
\* has returned and stop_background_tasks has not been called since (the
\* flag _is_running is set), the heartbeat task and the periodic-update task
\* are alive: neither has finished.
C39_TasksAliveWhileStarted ==
  (impl = "api" /\ hub_tasks.is_running)
    => /\ hub_tasks.heartbeat \in {"running", "cancelling"}
       /\ hub_tasks.periodic \in {"running", "cancelling"}

====
